---- MODULE Spec2Model ----
(***************************************************************************)
(* Model of the streaming adapter of the xdelta3 binding (src/src/lib.rs): *)
(* the windowed source-block cache SrcBuffer and the driver loop           *)
(* process_async behind encode_async / decode_async.                       *)
(*                                                                         *)
(* The codec engine is external: one engine step returns any signal, and   *)
(* on need-source-block it asks for any block number.  The three streams   *)
(* are external too: a read returns an error or a count, a write returns   *)
(* an error or a count, as futures_io::AsyncRead / AsyncWrite allow.       *)
(*                                                                         *)
(* One action is the code run between two suspension points (.await).      *)
(*                                                                         *)
(* Bytes are modelled by where they come from: the reference byte at       *)
(* logical offset i is the number i, the input byte at position i is i,    *)
(* the k-th byte the engine produces is k.  A zeroed buffer cell is        *)
(* Zeroed.                                                                 *)
(***************************************************************************)
EXTENDS Integers, Sequences, FiniteSets, TLC

\* Scaled-down program constants (lib.rs has 64 blocks of 2^20 bytes and a
\* 2^23 byte input window); the code's arithmetic is kept as written.
block_count == 2
blksize == 3
max_winsize == block_count * blksize
XD3_DEFAULT_WINSIZE == 2

\* Bounds of the model.
MaxRefLen == 10
MaxBlkno == 5
MaxIn == 2
MaxOut == 2

Zeroed == -1

VARIABLES
  pc,            \* position of process_async
  result,        \* "none" while running, then "Some" or "None"
  freed,         \* number of xd3_free_stream calls on the session
  refLen,        \* total length of the reference stream
  refPos,        \* bytes of the reference stream consumed so far
  read_len, eof_known, block_offset, buf,   \* SrcBuffer fields
  src,           \* SrcBuffer.src, the xd3_source descriptor
  inLen,         \* total length of the input stream
  inPos,         \* bytes of the input stream consumed so far
  input_buf, eof,
  stream,        \* the fields of xd3_stream the driver touches
  out_data,      \* the part of the exposed output not yet written
  sink,          \* bytes the output sink has accepted
  exposed,       \* history: every output byte the engine exposed
  supplied,      \* history: every input chunk handed to the engine
  hist           \* history: events of the operation

cacheVars == <<refPos, read_len, eof_known, block_offset, buf, src>>
inVars == <<inPos, input_buf, eof, supplied>>
outVars == <<out_data, sink, exposed>>
vars == <<pc, result, freed, refLen, inLen, cacheVars, inVars, outVars, stream, hist>>

Min(a, b) == IF a < b THEN a ELSE b

\* Counts an AsyncRead::read may return for a buffer of len bytes when
\* remaining bytes are left in the stream: 0 exactly at end of stream or
\* for an empty buffer, else any count up to both.
ReadCounts(len, remaining) ==
  IF Min(len, remaining) = 0 THEN {0} ELSE 1..Min(len, remaining)

----------------------------------------------------------------------------
(* Windowed source-block cache: SrcBuffer *)

\* SrcBuffer::new, line 169: end of stream is taken as known when the first
\* read did not fill the buffer.
EofKnownAtNew(n, buflen) == n # buflen

\* The assertion at the head of SrcBuffer::block_range.
BlockRangeAssert(idx, bo) == idx >= bo /\ idx < bo + block_count

\* SrcBuffer::block_range: the physical range <<start, end>> of block idx,
\* both ends clamped to read_len.
block_range(idx, rl) ==
  LET i == idx % block_count
      start == blksize * i
      end == blksize * (i + 1)
  IN  <<Min(start, rl), Min(end, rl)>>

\* PrepareMore reading on although end of stream is known.
PrepareMoreIgnoringEof(idx, ek, bo) == idx >= bo + block_count

\* The loop condition of SrcBuffer::prepare.
PrepareMore(idx, ek, bo) == ~ek /\ idx >= bo + block_count

\* ReadLenAfterFetch with = in place of +=.
ReadLenAfterFetchAssigned(rl, n) == n

\* SrcBuffer::fetch, line 190: self.read_len += read_len.
ReadLenAfterFetch(rl, n) == rl + n

\* buf after a read of n bytes, starting at stream position pos, into the
\* physical range that starts at start.
BufAfterRead(b, start, n, pos) ==
  [p \in 0..(max_winsize - 1) |->
     IF p >= start /\ p < start + n THEN pos + (p - start) ELSE b[p]]

\* SrcBuffer::getblk after prepare and block_range: the fields written into
\* the xd3_source descriptor.
getblk(s, range, bo, rl, ek) ==
  LET onblk == range[2] - range[1]
  IN  [s EXCEPT !.curblkno = s.getblkno,
                !.curblk = range[1],
                !.onblk = onblk,
                !.eof_known = ek,
                !.max_blkno = IF ek THEN bo + block_count - 1 ELSE s.getblkno,
                !.onlastblk = IF ek THEN rl % blksize ELSE onblk]

\* The bytes the engine sees through curblk / onblk.
CurBlkData == [i \in 1..src.onblk |-> buf[src.curblk + i - 1]]

----------------------------------------------------------------------------
(* Session teardown and the ways process_async ends *)

\* xd3_free_stream never called: Xd3Stream without its Drop.
xd3_free_streamMissing(n) == n

\* Drop for Xd3Stream: one xd3_free_stream call.
xd3_free_stream(n) == n + 1

\* return: the locals are dropped, the Xd3Stream among them.
Return(r) ==
  /\ pc' = "returned"
  /\ result' = r
  /\ freed' = xd3_free_stream(freed)

\* A failed assertion unwinds through process_async, dropping its locals.
Panic ==
  /\ pc' = "panicked"
  /\ result' = result
  /\ freed' = xd3_free_stream(freed)

\* The rest of SrcBuffer::getblk once prepare has returned (its result is
\* not looked at): block_range asserts, then the descriptor is filled and
\* the inner loop steps the engine again.  s is the descriptor holding the
\* request, bo / rl / ek the cache fields after prepare, h the history.
GetblkTail(s, bo, rl, ek, h) ==
  IF BlockRangeAssert(s.getblkno, bo)
  THEN /\ src' = getblk(s, block_range(s.getblkno, rl), bo, rl, ek)
       /\ hist' = [h EXCEPT !.reported = TRUE]
       /\ pc' = "step"
       /\ UNCHANGED <<result, freed>>
  ELSE /\ src' = s
       /\ hist' = h
       /\ Panic

----------------------------------------------------------------------------
(* The engine's signals *)

Informational == {"XD3_GOTHEADER", "XD3_WINSTART", "XD3_WINFINISH"}
Terminal == {"XD3_TOOFARBACK", "XD3_INTERNAL", "XD3_INVALID",
             "XD3_INVALID_INPUT", "XD3_NOSECOND", "XD3_UNIMPLEMENTED"}

\* binding::xd3_rvalues, what one engine step can return.
Signals ==
  {"XD3_INPUT", "XD3_OUTPUT", "XD3_GETSRCBLK"} \cup Informational \cup Terminal

\* Arm with XD3_TOOFARBACK listed in the do-nothing arm.
ArmTooFarBackIgnored(sig) ==
  IF sig \in Informational \cup {"XD3_TOOFARBACK"} THEN "nothing"
  ELSE IF sig \in Terminal THEN "return"
  ELSE sig

\* Arm with XD3_WINFINISH going on to the next input chunk.
ArmWinFinishContinuesOuter(sig) ==
  IF sig = "XD3_WINFINISH" THEN "XD3_INPUT"
  ELSE IF sig \in Informational THEN "nothing"
  ELSE IF sig \in Terminal THEN "return"
  ELSE sig

\* Lines 358-391, match ret: the arm a signal is handled by, named by the
\* signal for the three single-signal arms.
Arm(sig) ==
  IF sig \in Informational THEN "nothing"
  ELSE IF sig \in Terminal THEN "return"
  ELSE sig

\* The suspension points of process_async: the .await of SrcBuffer::new's
\* read, of input.read, of out.write, of fetch's read and of out.flush.
Suspended == {"new", "read", "write", "prepare", "flush"}

----------------------------------------------------------------------------
(* Initial state: process_async has created the Xd3Stream and the config,  *)
(* and SrcBuffer::new is about to read.                                    *)

Init ==
  /\ pc = "new"
  /\ result = "none"
  /\ freed = 0
  /\ refLen \in 0..MaxRefLen
  /\ refPos = 0
  /\ read_len = 0
  /\ eof_known = FALSE
  /\ block_offset = 0
  /\ buf = [p \in 0..(max_winsize - 1) |-> Zeroed]
  /\ src = [blksize |-> blksize, max_winsize |-> max_winsize,
            getblkno |-> 0, curblkno |-> 0, curblk |-> 0, onblk |-> 0,
            eof_known |-> FALSE, max_blkno |-> 0, onlastblk |-> 0]
  /\ inLen \in 0..MaxIn
  /\ inPos = 0
  /\ input_buf = <<>>
  /\ eof = FALSE
  /\ stream = [flags |-> {}, avail_in |-> 0,
               avail_out |-> 0, next_out |-> <<>>, winsize |-> 0]
  /\ out_data = <<>>
  /\ sink = <<>>
  /\ exposed = <<>>
  /\ supplied = <<>>
  /\ hist = [built |-> FALSE, reported |-> FALSE, mono |-> TRUE, maxReq |-> -1,
             shortRead |-> FALSE, errAt |-> "none", flushCalls |-> 0,
             zeroRead |-> FALSE, partial |-> FALSE, lastSig |-> "none",
             rejected |-> "none", zw |-> 0, need |-> 0, fetched |-> 0]

----------------------------------------------------------------------------
(* Setup: lines 304-320 *)

\* SrcBuffer::new(src).await? : one read into the whole buffer.
SrcBufferNew ==
  /\ pc = "new"
  /\ \/ /\ hist' = [hist EXCEPT !.errAt = "srcinit"]
        /\ Return("None")
        /\ UNCHANGED <<refLen, inLen, cacheVars, inVars, outVars, stream>>
     \/ \E n \in ReadCounts(max_winsize, refLen - refPos) :
          /\ read_len' = n
          /\ refPos' = refPos + n
          /\ buf' = BufAfterRead(buf, 0, n, refPos)
          /\ eof_known' = EofKnownAtNew(n, max_winsize)
          /\ block_offset' = 0
          /\ hist' = [hist EXCEPT
                        !.built = TRUE,
                        !.shortRead = n < Min(max_winsize, refLen - refPos)]
          /\ pc' = "config"
          /\ UNCHANGED <<result, freed, refLen, inLen, src, inVars, outVars, stream>>

\* What xd3_config_stream and xd3_set_source return: 0, or an error code.
EngineRets == {"ok", "rejected"}

\* RetFails with the return code never looked at.
RetFailsNever(ret) == FALSE

\* Lines 307 and 312: if ret != 0 { return None; }
RetFails(ret) == ret # "ok"

\* xd3_config_stream: accepted or rejected by the engine.
ConfigStream ==
  /\ pc = "config"
  /\ \E ret \in EngineRets :
       /\ hist' = [hist EXCEPT !.rejected = IF ret = "ok" THEN @ ELSE "config"]
       /\ IF RetFails(ret)
          THEN /\ Return("None")
               /\ UNCHANGED stream
          ELSE /\ stream' = [stream EXCEPT !.winsize = XD3_DEFAULT_WINSIZE]
               /\ pc' = "setsrc"
               /\ UNCHANGED <<result, freed>>
  /\ UNCHANGED <<refLen, inLen, cacheVars, inVars, outVars>>

\* xd3_set_source: accepted or rejected; then the input buffer is made and
\* the outer loop is entered (eof is false).
SetSource ==
  /\ pc = "setsrc"
  /\ \E ret \in EngineRets :
       /\ hist' = [hist EXCEPT !.rejected = IF ret = "ok" THEN @ ELSE "bind"]
       /\ IF RetFails(ret)
          THEN /\ Return("None")
               /\ UNCHANGED <<input_buf, eof>>
          ELSE /\ input_buf' = [i \in 1..stream.winsize |-> Zeroed]
               /\ eof' = FALSE
               /\ pc' = "read"
               /\ UNCHANGED <<result, freed>>
  /\ UNCHANGED <<refLen, inLen, cacheVars, inPos, supplied, outVars, stream>>

----------------------------------------------------------------------------
(* Outer cycle: lines 322-340 *)

\* input_buf after a read of n bytes from stream position pos.
InputBufAfterRead(ib, n, pos) ==
  [i \in 1..Len(ib) |-> IF i <= n THEN pos + i ELSE ib[i]]

\* Lines 338-339: the chunk the engine is given, next_in = input_buf and
\* avail_in = read_size.  (AvailInWholeBuffer: avail_in set to the length
\* of the buffer instead.)
AvailInWholeBuffer(read_size) == XD3_DEFAULT_WINSIZE
AvailIn(read_size) == read_size
InputChunk(ib, avail_in) == SubSeq(ib, 1, avail_in)

\* EofAfterRead with the assignment eof = true left out.
EofAfterReadNeverSet(read_size, e) == e

\* Lines 331-335: a zero-byte read sets eof.
EofAfterRead(read_size, e) == IF read_size = 0 THEN TRUE ELSE e

\* input.read(&mut input_buf).await and the hand-over to the engine.
InputRead ==
  /\ pc = "read"
  /\ \/ /\ hist' = [hist EXCEPT !.errAt = "input"]
        /\ Return("None")
        /\ UNCHANGED <<inVars, stream>>
     \/ \E read_size \in ReadCounts(Len(input_buf), inLen - inPos) :
          /\ input_buf' = InputBufAfterRead(input_buf, read_size, inPos)
          /\ inPos' = inPos + read_size
          /\ eof' = EofAfterRead(read_size, eof)
          /\ stream' = [stream EXCEPT
                          !.flags = IF read_size = 0 THEN {"XD3_FLUSH"} ELSE @,
                          !.avail_in = AvailIn(read_size)]
          /\ supplied' = Append(supplied,
                                 [chunk |-> InputChunk(input_buf', stream'.avail_in),
                                  read |-> read_size])
          /\ hist' = [hist EXCEPT !.zeroRead = @ \/ read_size = 0]
          /\ pc' = "step"
          /\ UNCHANGED <<result, freed>>
  /\ UNCHANGED <<refLen, inLen, cacheVars, outVars>>

----------------------------------------------------------------------------
(* Inner cycle: lines 341-392.  Each action is one engine step and the     *)
(* match arm for the signal it returned, up to the next suspension point.  *)

Stepped(sig) == [hist EXCEPT !.lastSig = sig]

\* OuterNext leaving the loop on the first need-more-input.
OuterNextLeavingEarly(e) == "flush"

\* Line 322, while !eof: where continue 'outer leads.
OuterNext(e) == IF e THEN "flush" ELSE "read"

\* XD3_INPUT: continue 'outer; the loop is left when eof is set.
StepInput ==
  /\ pc = "step"
  /\ pc' = OuterNext(eof)
  /\ \E sig \in Signals : Arm(sig) = "XD3_INPUT" /\ hist' = Stepped(sig)
  /\ UNCHANGED <<result, freed, refLen, inLen, cacheVars, inVars, outVars, stream>>

\* Line 379, xd3_consume_output.
ConsumeOutput(st) == [st EXCEPT !.avail_out = 0]

\* XD3_OUTPUT: the engine exposes next_out / avail_out; an empty chunk
\* skips the write loop.
StepOutput ==
  /\ pc = "step"
  /\ \E k \in 0..(MaxOut - Len(exposed)) :
       LET chunk == [i \in 1..k |-> Len(exposed) + i]
           st == [stream EXCEPT !.next_out = chunk, !.avail_out = k]
       IN  /\ exposed' = exposed \o chunk
           /\ out_data' = SubSeq(st.next_out, 1, st.avail_out)
           /\ IF out_data' = <<>>
              THEN stream' = ConsumeOutput(st) /\ pc' = "step"
              ELSE stream' = st /\ pc' = "write"
  /\ \E sig \in Signals : Arm(sig) = "XD3_OUTPUT" /\ hist' = Stepped(sig)
  /\ UNCHANGED <<result, freed, refLen, inLen, cacheVars, inVars, sink>>

\* WriteAdvance taking one write call for a write of everything offered.
WriteAdvanceAssumingAll(data, n) == <<>>

\* Line 375: out_data = &out_data[n..].
WriteAdvance(data, n) == SubSeq(data, n + 1, Len(data))

\* Counts an AsyncWrite::write may return for len bytes offered.
WriteCounts(len) == 0..len

\* out.write(out_data).await inside the write loop: an error, or the sink
\* accepts the first n bytes offered.  hist.zw is the parity of the
\* zero-byte writes in a row, so that each call of write is a step.
Write ==
  /\ pc = "write"
  /\ \/ /\ hist' = [hist EXCEPT !.errAt = "write"]
        /\ Return("None")
        /\ UNCHANGED <<outVars, stream>>
     \/ \E n \in WriteCounts(Len(out_data)) :
          /\ sink' = sink \o SubSeq(out_data, 1, n)
          /\ out_data' = WriteAdvance(out_data, n)
          /\ IF out_data' = <<>>
             THEN stream' = ConsumeOutput(stream) /\ pc' = "step"
             ELSE stream' = stream /\ pc' = "write"
          /\ hist' = [hist EXCEPT
                        !.partial = @ \/ (0 < n /\ n < Len(out_data)),
                        !.zw = IF n = 0 THEN 1 - @ ELSE 0]
          /\ UNCHANGED <<result, freed, exposed>>
  /\ UNCHANGED <<refLen, inLen, cacheVars, inVars>>

\* XD3_GETSRCBLK: the engine has set getblkno; getblk runs prepare, which
\* either needs a fetch (a suspension point) or falls through.
StepGetSrcBlk ==
  /\ pc = "step"
  /\ \E b \in 0..MaxBlkno, sig \in Signals :
       LET s == [src EXCEPT !.getblkno = b]
           h == [Stepped(sig) EXCEPT
                   !.reported = FALSE,
                   !.need = IF b >= block_offset + block_count
                            THEN b - (block_offset + block_count - 1) ELSE 0,
                   !.fetched = 0,
                   !.mono = @ /\ b >= hist.maxReq,
                   !.maxReq = IF b > @ THEN b ELSE @]
       IN  /\ Arm(sig) = "XD3_GETSRCBLK"
           /\ IF PrepareMore(b, eof_known, block_offset)
              THEN /\ src' = s
                   /\ hist' = h
                   /\ pc' = "prepare"
                   /\ UNCHANGED <<result, freed>>
              ELSE GetblkTail(s, block_offset, read_len, eof_known, h)
  /\ UNCHANGED <<refLen, inLen, refPos, read_len, eof_known, block_offset, buf,
                 inVars, outVars, stream>>

\* SrcBuffer::fetch inside prepare's loop: one read into the slot of block
\* block_offset.  An error leaves prepare with None, which getblk drops; a
\* read that did not fill the slot sets eof_known and breaks the loop.
\* hist.need is the number of fetches the request called for when it came,
\* hist.fetched those made for it so far.
Fetch ==
  /\ pc = "prepare"
  /\ BlockRangeAssert(block_offset, block_offset)
  /\ LET r == block_range(block_offset, read_len)
         len == r[2] - r[1]
     IN  \/ /\ UNCHANGED <<refPos, read_len, eof_known, block_offset, buf>>
            /\ GetblkTail(src, block_offset, read_len, eof_known,
                          [hist EXCEPT !.errAt = "fetch", !.fetched = @ + 1])
         \/ \E n \in ReadCounts(len, refLen - refPos) :
              LET fetch_eof == n # len
                  h == [hist EXCEPT
                          !.fetched = @ + 1,
                          !.shortRead = @ \/ n < Min(len, refLen - refPos)]
              IN  /\ buf' = BufAfterRead(buf, r[1], n, refPos)
                  /\ refPos' = refPos + n
                  /\ block_offset' = block_offset + 1
                  /\ read_len' = ReadLenAfterFetch(read_len, n)
                  /\ eof_known' = (eof_known \/ fetch_eof)
                  /\ IF ~fetch_eof /\ PrepareMore(src.getblkno, eof_known', block_offset')
                     THEN /\ pc' = "prepare"
                          /\ hist' = h
                          /\ UNCHANGED <<result, freed, src>>
                     ELSE GetblkTail(src, block_offset', read_len', eof_known', h)
  /\ UNCHANGED <<refLen, inLen, inVars, outVars, stream>>

\* XD3_GOTHEADER, XD3_WINSTART, XD3_WINFINISH: nothing to do.
StepInfo ==
  /\ pc = "step"
  /\ \E sig \in Signals : Arm(sig) = "nothing" /\ hist' = Stepped(sig)
  /\ UNCHANGED <<pc, result, freed, refLen, inLen, cacheVars, inVars, outVars, stream>>

\* The terminal signals: return None.
StepTerminal ==
  /\ pc = "step"
  /\ \E sig \in Signals : Arm(sig) = "return" /\ hist' = Stepped(sig)
  /\ Return("None")
  /\ UNCHANGED <<refLen, inLen, cacheVars, inVars, outVars, stream>>

\* FlushResult with the error of flush dropped.
FlushResultIgnoringError(ok) == "Some"

\* Line 395, .ok(): the Result of flush as the Option process_async returns.
FlushResult(ok) == IF ok THEN "Some" ELSE "None"

\* Line 395: out.flush().await.ok()
Flush ==
  /\ pc = "flush"
  /\ \E ok \in BOOLEAN :
       /\ hist' = [hist EXCEPT !.flushCalls = @ + 1,
                               !.errAt = IF ok THEN @ ELSE "flush"]
       /\ Return(FlushResult(ok))
  /\ UNCHANGED <<refLen, inLen, cacheVars, inVars, outVars, stream>>

\* The caller drops the future at a suspension point: the locals of
\* process_async are dropped with it.
Abandon ==
  /\ pc \in Suspended
  /\ pc' = "dropped"
  /\ freed' = xd3_free_stream(freed)
  /\ UNCHANGED <<result, refLen, inLen, cacheVars, inVars, outVars, stream, hist>>

Next ==
  \/ SrcBufferNew
  \/ ConfigStream
  \/ SetSource
  \/ InputRead
  \/ StepInput
  \/ StepOutput
  \/ Write
  \/ StepGetSrcBlk
  \/ Fetch
  \/ StepInfo
  \/ StepTerminal
  \/ Flush
  \/ Abandon

Spec == Init /\ [][Next]_vars

\* One reference and one input, for the behaviours that never end: every
\* call of out.write completes, and the write loop then goes on.
FairInit == Init /\ refLen = max_winsize + 1 /\ inLen = 1
FairSpec == FairInit /\ [][Next]_vars /\ WF_vars(Write)

----------------------------------------------------------------------------
(* Properties *)

Ended == {"returned", "panicked", "dropped"}

\* The environment the cache is specified for: the reference source has
\* filled every read short of end of stream, and the engine's block
\* requests have been non-decreasing.
WellBehaved == ~hist.shortRead /\ hist.mono

\* The index of the last block that holds reference bytes (refLen > 0).
LastBlkno == (refLen + blksize - 1) \div blksize - 1

\* C1: a failed read of the reference stream inside fetch (prepare, getblk)
\* ends the operation by returning None: it does not end in an assertion
\* abort, does not return success and does not go on stepping the engine.
C1_FetchErrorReturnsNone ==
  hist.errAt = "fetch" => (pc = "returned" /\ result = "None")

\* C3: once end of stream is known, getblk for the final block of a
\* reference whose length is no multiple of blksize reports
\* onblk = refLen mod blksize, and onlastblk is that same length.  Stated
\* for a well-behaved source and engine, where the claim still fails.
C3_PartialFinalBlock ==
  ( /\ hist.reported
    /\ WellBehaved
    /\ src.eof_known
    /\ refLen % blksize # 0
    /\ src.curblkno = refLen \div blksize )
  => (src.onblk = refLen % blksize /\ src.onlastblk = src.onblk)

\* C4: whenever getblk reports eof_known for a non-empty reference,
\* max_blkno is the index of the last block that holds reference bytes,
\* ceil(refLen / blksize) - 1, and onlastblk is the length of that block.
\* Stated for a well-behaved source and engine, where the claim still fails.
C4_MaxBlknoIsLastBlock ==
  (hist.reported /\ WellBehaved /\ src.eof_known /\ refLen > 0)
  => ( /\ src.max_blkno = LastBlkno
       /\ src.onlastblk = refLen - LastBlkno * blksize )

\* C5: for a reference longer than one window, read from a source that
\* fills every read, and non-decreasing requests: the bytes getblk reports
\* for block b are the reference bytes from logical offset b * blksize on,
\* the ranges of distinct blocks of the window do not overlap, and once
\* eof_known is set read_len is the length of the reference.
C5_LongReferenceServedCorrectly ==
  (hist.reported /\ WellBehaved /\ refLen > max_winsize)
  => ( /\ \A i \in 1..src.onblk :
            CurBlkData[i] = src.curblkno * blksize + (i - 1)
       /\ \A b1, b2 \in block_offset..(block_offset + block_count - 1) :
            b1 # b2 =>
              LET r1 == block_range(b1, read_len)
                  r2 == block_range(b2, read_len)
              IN  r1[2] <= r2[1] \/ r2[2] <= r1[1]
       /\ eof_known => read_len = refLen )

\* C6: a reference shorter than one block (0 < refLen < blksize) is built
\* with eof_known set, getblk(0) reports one block of refLen bytes and
\* every other block of the window is reported empty; an empty reference
\* is built with eof_known set and read_len = 0, and every block getblk
\* reports is empty and carries the eof_known flag.
C6_ShortAndEmptyReference ==
  /\ (hist.built /\ refLen < blksize) => eof_known
  /\ (hist.built /\ refLen = 0) => read_len = 0
  /\ (hist.reported /\ 0 < refLen /\ refLen < blksize)
       => ( /\ src.eof_known
            /\ src.onblk = IF src.curblkno = 0 THEN refLen ELSE 0 )
  /\ (hist.reported /\ refLen = 0) => (src.onblk = 0 /\ src.eof_known)

\* C2: an error of the initial reference read, of an input read, of
\* out.write or of out.flush makes process_async return None at once, and
\* nothing is done after it: no step is ever taken from a state in which
\* such an error has happened.
C2_IoFailurePropagates ==
  [][ hist'.errAt \in {"srcinit", "input", "write", "flush"}
        => (hist.errAt = "none" /\ pc' = "returned" /\ result' = "None") ]_vars

C2_Witness ==
  hist.errAt = "write" /\ sink # <<>> /\ pc = "returned" /\ result = "None"

\* C7: the sink always holds a prefix of what the engine exposed, the
\* unwritten rest following it; whenever the engine is about to be stepped
\* the sink holds exactly the concatenation of all exposed chunks and
\* avail_out is zero.
C7_SinkGetsEveryChunk ==
  /\ sink \o out_data = exposed
  /\ pc = "step" => (out_data = <<>> /\ stream.avail_out = 0)

C7_Witness ==
  /\ pc = "step"
  /\ hist.lastSig = "XD3_OUTPUT"
  /\ hist.partial
  /\ Len(sink) >= 2

RECURSIVE Concat(_)
Concat(chunks) ==
  IF chunks = <<>> THEN <<>> ELSE Head(chunks).chunk \o Concat(Tail(chunks))

InputContent == [i \in 1..inLen |-> i]

\* C8: however the input stream splits its content into reads, the chunks
\* supplied to the engine concatenate to the content read so far, each has
\* the length of its read, only the last can be empty, and at the end of
\* input the whole content has been supplied and the last chunk is empty.
C8_ChunkedInputDelivery ==
  /\ Concat(supplied) = SubSeq(InputContent, 1, inPos)
  /\ \A k \in 1..Len(supplied) : Len(supplied[k].chunk) = supplied[k].read
  /\ \A k \in 1..(Len(supplied) - 1) : supplied[k].chunk # <<>>
  /\ (eof \/ result = "Some")
       => ( /\ inPos = inLen
            /\ supplied # <<>>
            /\ supplied[Len(supplied)].chunk = <<>> )

C8_Witness ==
  result = "Some" /\ inLen = 2 /\ Len(supplied) = 3

\* What a successful return rests on: a zero-byte read whose cycle was
\* stepped up to need-more-input with all output written, then one flush
\* that returned ok.
SuccessfulCompletion ==
  /\ pc = "returned"
  /\ hist.zeroRead
  /\ eof
  /\ "XD3_FLUSH" \in stream.flags
  /\ supplied # <<>> /\ supplied[Len(supplied)].chunk = <<>>
  /\ hist.lastSig = "XD3_INPUT"
  /\ out_data = <<>> /\ sink = exposed /\ stream.avail_out = 0
  /\ hist.flushCalls = 1
  /\ hist.errAt = "none"

Failed == result = "None" \/ pc = "panicked"

\* C9 as claimed: success only after the drained final cycle and one ok
\* flush, and flush never called on a failing path.
C9_FlushNeverOnFailingPath ==
  /\ result = "Some" => SuccessfulCompletion
  /\ Failed => hist.flushCalls = 0

\* C9 as amended: success only after the drained final cycle and one ok
\* flush; flush is called at most once, never after a failure, and the
\* only failing path with a flush call is the one where flush itself failed.
C9_SuccessOnlyAfterDrainAndFlush ==
  /\ result = "Some" => SuccessfulCompletion
  /\ hist.flushCalls <= 1
  /\ (Failed /\ hist.errAt # "flush") => hist.flushCalls = 0
  /\ hist.errAt = "flush" => (hist.flushCalls = 1 /\ pc = "returned" /\ result = "None")

C9_Witness ==
  result = "Some" /\ sink # <<>> /\ inLen > 0 /\ hist.flushCalls = 1

\* C10: xd3_free_stream has been called exactly once when process_async
\* has ended, in whatever way, and not before; no step, so no engine call,
\* is taken once it has been called.
C10_TeardownExactlyOnce ==
  [][ freed = 0 /\ freed' = (IF pc' \in Ended THEN 1 ELSE 0) ]_vars

C10_Witness ==
  pc = "dropped" /\ out_data # <<>> /\ freed = 1

\* What holds at a rejection whatever the reference: the input stream is
\* untouched, the engine was never stepped and nothing was written.
NothingProcessed ==
  /\ inPos = 0 /\ supplied = <<>> /\ ~hist.zeroRead
  /\ hist.lastSig = "none"
  /\ exposed = <<>> /\ sink = <<>> /\ hist.flushCalls = 0

\* C11 as claimed: when xd3_config_stream or xd3_set_source is rejected the
\* operation returns None and no byte has been read from the input or the
\* reference stream, no engine step has run and nothing has been written.
C11_RejectionBeforeAnyByte ==
  hist.rejected # "none"
    => (pc = "returned" /\ result = "None" /\ NothingProcessed /\ refPos = 0)

\* C11 as amended: when xd3_config_stream or xd3_set_source is rejected the
\* operation returns None, no byte has been read from the input stream, no
\* engine step has run and nothing has been written; of the reference
\* stream only the one initial read of SrcBuffer::new has been made.
C11_RejectionBeforeInputAndEngine ==
  hist.rejected # "none"
    => ( /\ pc = "returned" /\ result = "None"
         /\ NothingProcessed
         /\ hist.built /\ block_offset = 0
         /\ refPos = read_len /\ read_len <= max_winsize
         /\ ~hist.reported )

C11_Witness ==
  hist.rejected = "bind" /\ result = "None" /\ refPos > 0

\* C13: eof_known means the reference source is exhausted: whatever the
\* source's reads return, whenever the cache has eof_known set the stream
\* has no unread byte left and read_len is the length of the reference.
C13_EofKnownMeansExhausted ==
  (hist.built /\ eof_known) => (refPos = refLen /\ read_len = refLen)

\* C14: a step that returns a terminal signal makes process_async return
\* None in that step, with no read of the input or the reference, no write
\* and no flush in it; no step is ever taken after it, and the sink keeps
\* what it had.
C14_TerminalSignalAborts ==
  [][ hist'.lastSig \in Terminal
        => ( /\ hist.lastSig \notin Terminal
             /\ pc = "step"
             /\ pc' = "returned" /\ result' = "None"
             /\ sink' = sink
             /\ inPos' = inPos /\ supplied' = supplied
             /\ refPos' = refPos /\ block_offset' = block_offset
             /\ hist'.flushCalls = hist.flushCalls ) ]_vars

C14_Witness ==
  hist.lastSig = "XD3_TOOFARBACK" /\ sink # <<>> /\ result = "None"

\* C15: the input stream is read, and the input buffer and the chunk
\* supplied to the engine change, only at the head of the outer cycle, which
\* is reached for the first time from the setup and afterwards only
\* straight from a step that returned XD3_INPUT.
C15_OuterCycleOnlyOnInput ==
  [][ /\ pc' = "read" => (pc = "setsrc" \/ (pc = "step" /\ hist'.lastSig = "XD3_INPUT"))
      /\ pc = "read" => (supplied = <<>> \/ hist.lastSig = "XD3_INPUT")
      /\ (inPos' # inPos \/ supplied' # supplied \/ stream'.avail_in # stream.avail_in)
           => pc = "read"
      /\ input_buf' # input_buf => pc \in {"read", "setsrc"} ]_vars

C15_Witness ==
  /\ pc = "read"
  /\ Len(supplied) = 1
  /\ hist.lastSig = "XD3_INPUT"
  /\ exposed # <<>>
  /\ hist.reported

Flushed == "XD3_FLUSH" \in stream.flags

\* C16: the engine's flush flag is set exactly when an input read has
\* returned zero bytes; once set it stays set, and from then on the input
\* stream is not read and no chunk is supplied again, so it is set once.
C16_FlushFlagOneShot ==
  [][ /\ Flushed <=> hist.zeroRead
      /\ Flushed' <=> hist'.zeroRead
      /\ Flushed => ( /\ Flushed'
                      /\ pc # "read" /\ pc' # "read"
                      /\ inPos' = inPos /\ supplied' = supplied ) ]_vars

C16_Witness ==
  Flushed /\ pc = "step" /\ inPos > 0 /\ hist.lastSig = "XD3_OUTPUT"

\* C17: the write loop ends: with a sink that completes every write call,
\* returning an error or any count from 0 to the length offered, a state
\* inside the write loop is always followed by the next engine step or by
\* the failure of the operation (or by the caller dropping it).
C17_WriteLoopTerminates ==
  (pc = "write") ~> (pc = "step" \/ result = "None" \/ pc = "dropped")

Max(a, b) == IF a > b THEN a ELSE b

\* A step in which the reference source is read.
ReadsReference ==
  refPos' # refPos \/ block_offset' # block_offset \/ hist'.fetched > hist.fetched

\* C18: the reference is read in stream order, the bytes of each read going
\* to the slot of their block and no block being fetched twice; a request
\* served without reaching end of stream has made exactly the
\* max(0, idx - (block_offset + block_count - 1)) fetches it called for, so
\* that the top of the window never passes the highest index requested;
\* and no read is issued once eof_known is set.
C18_LazySequentialLookahead ==
  [][ /\ ReadsReference
           => ( /\ ~eof_known
                /\ refPos' >= refPos
                /\ \A p \in DOMAIN buf :
                     buf'[p] # buf[p]
                       => ( /\ buf'[p] >= refPos /\ buf'[p] < refPos'
                            /\ buf'[p] % max_winsize = p )
                /\ pc = "prepare"
                     => ( /\ src.getblkno >= block_offset + block_count
                          /\ hist'.fetched = hist.fetched + 1
                          /\ block_offset' \in {block_offset, block_offset + 1} ) )
      /\ hist'.fetched <= hist'.need
      /\ (hist'.reported /\ ~eof_known') => hist'.fetched = hist'.need
      /\ block_offset' + block_count - 1 <= Max(block_count - 1, hist'.maxReq)
      /\ refPos' = read_len' ]_vars

C18_Witness ==
  hist.reported /\ ~eof_known /\ hist.need = 1 /\ hist.fetched = 1 /\ block_offset = 1

\* C19: over every step, a failing read included, block_offset and read_len
\* never decrease and eof_known never goes from true back to false; and
\* while eof_known is false the cache has read exactly
\* (block_count + block_offset) * blksize bytes.
C19_MonotonicReferenceState ==
  [][ /\ block_offset' >= block_offset
      /\ read_len' >= read_len
      /\ eof_known => eof_known'
      /\ (hist'.built /\ ~eof_known')
           => read_len' = (block_count + block_offset') * blksize ]_vars

C19_Witness ==
  /\ hist.built /\ ~eof_known /\ block_offset = 1
  /\ read_len = (block_count + 1) * blksize
  /\ hist.errAt = "fetch"

\* A request outside the window once prepare is over ends in the assertion
\* of block_range, nothing being reported ("dropped": the caller gave the
\* operation up while prepare was suspended).
OutOfWindowIsLoud ==
  /\ hist.reported => BlockRangeAssert(src.curblkno, block_offset)
  /\ ~BlockRangeAssert(src.getblkno, block_offset)
       => (pc \in {"prepare", "dropped", "panicked"} /\ ~hist.reported)

\* C20: a request below block_offset, or at or beyond block_offset +
\* block_count once prepare is over, trips the assertion of block_range and
\* reports nothing, so every byte getblk hands to the engine is a byte of
\* the block that was requested, never what another block left in the slot.
C20_OutOfWindowNeverServed ==
  /\ OutOfWindowIsLoud
  /\ hist.reported
       => \A i \in 1..src.onblk : CurBlkData[i] \div blksize = src.curblkno

====
